---------------------------- MODULE Spec2Model ----------------------------
(***************************************************************************)
(* Cluster membership bookkeeping of src/src/cluster/member.go:            *)
(*   memberOperationBook  - the per-node dedup/ordering gate               *)
(*   memberStatusBook     - the registry of member status records          *)
(* Wall-clock instants are integers; the zero time.Time is 0 and the       *)
(* present lies more than the largest time.Duration after it, as it does   *)
(* for every clock reading of a running process.                           *)
(***************************************************************************)
EXTENDS Integers, Sequences, FiniteSets, TLC

\* ------------------------------------------------------------------ bounds
MaxTime == 1        \* logical times 0..MaxTime are offered to the gate
MaxTick == 2        \* the wall clock advances at most this far
MaxTimeout == 1     \* configured timeouts 0..MaxTimeout (and MaxDuration)
MaxAdds == 3        \* memberStatus records allocated in one run
MaxLen == 3          \* service names and instance IDs offered have up to MaxLen characters
MaxFacts == 3       \* gossip facts delivered to the handlers in one run

\* --------------------------------------------------------------- constants
zeroLogicalTime == 0
ZeroTime == 0       \* time.Time{}: the goneTime of a record never marked gone
MaxDuration == 6    \* the largest time.Duration; time.Time.Sub saturates at it,
                    \* and no two clock readings of one run are that far apart
ClockStart == 8     \* the first clock reading; ClockStart - ZeroTime > MaxDuration

Nodes == {"n1", "n2"}
Kinds == {"join", "leave"}
LogicalTimes == zeroLogicalTime..MaxTime
Instants == ClockStart..(ClockStart + MaxTick)
Timeouts == (0..MaxTimeout) \cup {MaxDuration}
None == zeroLogicalTime - 1   \* "no logical time recorded" in the history variables

VARIABLES
    operations,     \* memberOperationBook.operations: node name -> memberOperation
    mobTimeout,     \* memberOperationBook.timeout
    clock,          \* the local wall clock, time.Now()
    last,           \* the last call made and what it returned
    hist,           \* per node: what was offered to and accepted by save so far
    members,        \* memberStatusBook.members: a slice of *memberStatus
    msbTimeout,     \* memberStatusBook.timeout
    nextId,         \* the next *memberStatus allocated (pointer identity)
    sweep,          \* the last memberStatusBook.cleanup with no add since
    handlers,       \* per gossip handler: its position and the fact it handles
    lock,           \* the holder of the lock guarding both books, or Free
    delivered,      \* the number of facts delivered so far
    pending,        \* per node: the times save accepted that are not yet applied
    calls,          \* per unsynchronised caller: the registry call it is inside
    rcs             \* the registry center Server and the store behind rcs.service

gateVars == <<operations, mobTimeout, hist>>
bookVars == <<members, msbTimeout, nextId, sweep, calls>>
handlerVars == <<handlers, lock, delivered, pending>>
meshVars == <<rcs>>
vars == <<operations, mobTimeout, clock, last, hist, members, msbTimeout, nextId,
          sweep, handlers, lock, delivered, pending, calls, rcs>>

\* ------------------------------------------------------------ time package
\* time.Time.Sub: the difference, saturated at the largest/smallest Duration.
Sub(t, u) ==
    IF t - u > MaxDuration THEN MaxDuration
    ELSE IF t - u < -MaxDuration THEN -MaxDuration
    ELSE t - u

Max(a, b) == IF a >= b THEN a ELSE b

\* ------------------------------------------------------ memberOperationBook
\* createMemberOperationBook: an empty map bound to the timeout.
createMemberOperationBook == [n \in {} |-> None]

\* The condition of save's if: no record for the node, or a strictly newer time.
SaveAcceptsOrEqual(ops, msgType, nodeName, msgTime) ==
    nodeName \notin DOMAIN ops \/ msgTime >= ops[nodeName].messageTime

SaveAcceptsOtherKind(ops, msgType, nodeName, msgTime) ==
    \/ nodeName \notin DOMAIN ops
    \/ msgTime > ops[nodeName].messageTime
    \/ msgType # ops[nodeName].msgType

SaveAcceptsOlder(ops, msgType, nodeName, msgTime) ==
    nodeName \notin DOMAIN ops \/ msgTime < ops[nodeName].messageTime

SaveAcceptsByReceipt(ops, msgType, nodeName, msgTime) ==
    \/ nodeName \notin DOMAIN ops
    \/ msgTime > ops[nodeName].messageTime + (ops[nodeName].receiveTime - ClockStart)

SaveAccepts(ops, msgType, nodeName, msgTime) ==
    nodeName \notin DOMAIN ops \/ msgTime > ops[nodeName].messageTime

\* The map after save's assignment mob.operations[nodeName] = &memberOperation{...}.
SavePutKeepsKind(ops, msgType, nodeName, msgTime, now) ==
    [n \in DOMAIN ops \cup {nodeName} |->
        IF n = nodeName
        THEN [msgType |-> IF n \in DOMAIN ops THEN ops[n].msgType ELSE msgType,
              messageTime |-> msgTime, receiveTime |-> now]
        ELSE ops[n]]

SavePut(ops, msgType, nodeName, msgTime, now) ==
    [n \in DOMAIN ops \cup {nodeName} |->
        IF n = nodeName
        THEN [msgType |-> msgType, messageTime |-> msgTime, receiveTime |-> now]
        ELSE ops[n]]

\* The map save leaves behind: overwritten when accepted, untouched when not.
SaveResultRefreshes(ops, msgType, nodeName, msgTime, now) ==
    IF SaveAccepts(ops, msgType, nodeName, msgTime)
    THEN SavePut(ops, msgType, nodeName, msgTime, now)
    ELSE [ops EXCEPT ![nodeName].receiveTime = now]

SaveResult(ops, msgType, nodeName, msgTime, now) ==
    IF SaveAccepts(ops, msgType, nodeName, msgTime)
    THEN SavePut(ops, msgType, nodeName, msgTime, now)
    ELSE ops

\* memberOperationBook.get: (found, messageTime).
MobGetAnyKind(ops, nodeName, msgType) ==
    IF nodeName \notin DOMAIN ops
    THEN <<FALSE, zeroLogicalTime>>
    ELSE <<TRUE, ops[nodeName].messageTime>>

mob_get(ops, nodeName, msgType) ==
    IF nodeName \notin DOMAIN ops \/ ops[nodeName].msgType # msgType
    THEN <<FALSE, zeroLogicalTime>>
    ELSE <<TRUE, ops[nodeName].messageTime>>

\* The node names memberOperationBook.cleanup deletes.
MobExpiredAtTimeout(ops, now, timeout) ==
    {n \in DOMAIN ops : Sub(now, ops[n].receiveTime) >= timeout}

MobExpiredByRegistryTimeout(ops, now, timeout) ==
    {n \in DOMAIN ops : Sub(now, ops[n].receiveTime) > msbTimeout}

MobExpired(ops, now, timeout) ==
    {n \in DOMAIN ops : Sub(now, ops[n].receiveTime) > timeout}

MobCleanup(ops, now, timeout) ==
    [n \in DOMAIN ops \ MobExpired(ops, now, timeout) |-> ops[n]]

\* --------------------------------------------------------- memberStatusBook
\* createMemberStatusBook: no members, bound to the timeout.
createMemberStatusBook == << >>

\* A *memberStatus: the pointer (id), the member's name and the two status fields.
MemberStatus(id, name, lastMessageTime, goneTime) ==
    [id |-> id, name |-> name, lastMessageTime |-> lastMessageTime,
     goneTime |-> goneTime]

\* memberStatusBook.Count
msb_Count(ms) == Len(ms)

\* memberStatusBook.add
MsbAddUnlessNamed(ms, member) ==
    IF \E i \in 1..Len(ms) : ms[i].name = member.name THEN ms ELSE Append(ms, member)

msb_add(ms, member) == Append(ms, member)

\* memberStatusBook.randGet: the positions rand.Int31n(len) can select
\* (positions are counted from 1 here, from 0 in the slice).
RandIndexesButLast(ms) == 1..(Len(ms) - 1)

RandIndexes(ms) == 1..Len(ms)

\* memberStatusBook.remove: the members kept, and the number removed.
MsbRemoveFirstOnly(ms, memberName) ==
    LET idx == {i \in 1..Len(ms) : ms[i].name = memberName}
    IN IF idx = {} THEN ms
       ELSE LET f == CHOOSE i \in idx : \A j \in idx : i <= j
            IN SubSeq(ms, 1, f - 1) \o SubSeq(ms, f + 1, Len(ms))

MsbRemoveKeep(ms, memberName) == SelectSeq(ms, LAMBDA m : m.name # memberName)
MsbRemoveCount(ms, memberName) == Len(SelectSeq(ms, LAMBDA m : m.name = memberName))

\* The condition of cleanup's if: the member is kept.
MsbKeepsBeforeTimeout(m, now, timeout) == Sub(now, m.goneTime) < timeout

MsbKeeps(m, now, timeout) == Sub(now, m.goneTime) <= timeout

\* memberStatusBook.cleanup: keepMembers and removedMembers.
MsbCleanupKeepsAll(ms, now, timeout) == ms

MsbCleanupKeepsRemoved(ms, now, timeout) ==
    SelectSeq(ms, LAMBDA m : ~MsbKeeps(m, now, timeout))

MsbCleanupKeep(ms, now, timeout) ==
    SelectSeq(ms, LAMBDA m : MsbKeeps(m, now, timeout))

MsbCleanupRemoved(ms, now, timeout) ==
    SelectSeq(ms, LAMBDA m : ~MsbKeeps(m, now, timeout))

\* memberStatusBook.names
MsbNamesOfLive(ms) ==
    LET live == SelectSeq(ms, LAMBDA m : m.goneTime = ZeroTime)
    IN [i \in 1..Len(live) |-> live[i].name]

msb_names(ms) == [i \in 1..Len(ms) |-> ms[i].name]

NoSweep == [now |-> ZeroTime, removed |-> 0, any |-> FALSE]

\* Callers that use the registry without any exclusion; none is inside a call.
Callers == {"c1", "c2"}
CallsIdle == [c \in Callers |-> [pc |-> "idle"]]

\* A caller wrote msb.members: every other caller inside a call now holds a
\* slice value read before that write.
Overlap(cs, c) ==
    [d \in Callers |-> IF d # c /\ cs[d].pc # "idle"
                       THEN [cs[d] EXCEPT !.overlapped = TRUE]
                       ELSE IF d = c THEN [pc |-> "idle"] ELSE cs[d]]

\* The pointers held in before that are not held in after and are not among
\* those the call took out on purpose.
LostIds(before, after, taken) ==
    {before[i].id : i \in 1..Len(before)}
        \ ({after[i].id : i \in 1..Len(after)} \cup taken)

\* ---------------------------------------------------------------- history
\* kind is the kind of the last save accepted since the node's record was
\* created; swapped says that this save replaced a record of another kind.
HistInit == [n \in Nodes |-> [offered |-> None, accepted |-> None,
                              held |-> None, evicted |-> FALSE,
                              kind |-> "none", swapped |-> FALSE,
                              recent |-> None]]

\* After save(msgType, nodeName, msgTime) returned ok.
HistSave(h, msgType, nodeName, msgTime, ok) ==
    [h EXCEPT ![nodeName] =
        [offered  |-> Max(@.offered, msgTime),
         accepted |-> IF ok THEN Max(@.accepted, msgTime) ELSE @.accepted,
         held     |-> IF ok THEN Max(@.held, msgTime) ELSE @.held,
         evicted  |-> @.evicted,
         kind     |-> IF ok THEN msgType ELSE @.kind,
         swapped  |-> IF ok THEN @.kind \notin {"none", msgType} ELSE @.swapped,
         recent   |-> IF ok THEN msgTime ELSE @.recent]]

\* After cleanup deleted the records of the nodes in gone.
HistEvict(h, gone) ==
    [n \in Nodes |-> IF n \in gone
                     THEN [h[n] EXCEPT !.held = None, !.evicted = TRUE,
                                       !.kind = "none", !.swapped = FALSE,
                                       !.recent = None]
                     ELSE h[n]]

\* --------------------------------------------- registrycenter/discovery.go
\* Strings are sequences of characters; "" is the empty sequence.
Chars == {"a", "b", "-"}
Strings == UNION {[1..n -> Chars] : n \in 0..MaxLen}
Empty == << >>

\* strings.Split(s, "-"): the fields between the separators, at least one.
RECURSIVE Split(_)
Split(s) ==
    IF \A i \in 1..Len(s) : s[i] # "-"
    THEN <<s>>
    ELSE LET i == CHOOSE k \in 1..Len(s) :
                    s[k] = "-" /\ \A j \in 1..(k - 1) : s[j] # "-"
         IN <<SubSeq(s, 1, i - 1)>> \o Split(SubSeq(s, i + 1, Len(s)))

\* fmt.Sprintf("ins-%s-01", serviceName)
UniqInstanceID(serviceName) ==
    <<"i", "n", "s", "-">> \o serviceName \o <<"-", "0", "1">>

\* GetServiceName: names[2] of the split, "" unless there are three fields.
\* Go's names[2] is the third field, position 3 here.
GetServiceName(instanceID) ==
    LET names == Split(instanceID)
    IN IF Len(names) # 3 THEN Empty ELSE names[3]

\* The values of package spec that DiscoveryService returns or compares with.
Nil == [nil |-> TRUE]       \* a nil pointer
NoError == "nil"            \* a nil error
GlobalTenant == "global"
ErrNoRegisteredYet == "ErrNoRegisteredYet"
ErrServiceNotFound == "ErrServiceNotFound"
ErrNoTenant == "BUG: can't find service's registry tenant"

\* The services and tenants the store may hold.
ServiceNames == {<<"a">>, <<"b">>}
TenantNames == {"t1", "t2"}
SidecarOf == [s \in ServiceNames |->
                IF s = <<"a">> THEN [Address |-> "10.0.0.1", EgressPort |-> 13002]
                               ELSE [Address |-> "10.0.0.2", EgressPort |-> 13012]]
\* uint32(port) of a configured port, a number in 0..65535, is that number.
PortNumbers == {SidecarOf[s].EgressPort : s \in ServiceNames}
Uint32(x) == CHOOSE p \in PortNumbers : p = x

\* No server: the value of rcs where the registry center is not in play.
NoServer == [registered |-> FALSE, serviceName |-> Empty, tenant |-> "",
             services |-> [s \in {} |-> Nil], tenants |-> [t \in {} |-> Nil]]

\* rcs.service.GetServiceSpec: the spec stored under the name, or nil.
GetServiceSpec(r, serviceName) ==
    IF serviceName \in DOMAIN r.services THEN r.services[serviceName] ELSE Nil

\* getTenants: the tenants found in the store among those asked for.
getTenants(r, tenantNames) ==
    [t \in tenantNames \cap DOMAIN r.tenants |-> r.tenants[t]]

\* defaultInstance: the target's name and ID at the caller's sidecar egress.
DefaultInstanceAtTarget(self, target) ==
    [ServiceName |-> target.Name, InstanceID |-> UniqInstanceID(target.Name),
     IP |-> target.Sidecar.Address, Port |-> Uint32(target.Sidecar.EgressPort)]

defaultInstance(self, target) ==
    [ServiceName |-> target.Name, InstanceID |-> UniqInstanceID(target.Name),
     IP |-> self.Sidecar.Address, Port |-> Uint32(self.Sidecar.EgressPort)]

\* Whether the global tenant, if found, lists the service.
InGlobal(tenants, serviceName) ==
    /\ GlobalTenant \in DOMAIN tenants
    /\ serviceName \in tenants[GlobalTenant].Services

\* DiscoveryService: (serviceInfo, err).
DiscoveryService(r, serviceName) ==
    LET tenants == getTenants(r, {GlobalTenant, r.tenant})
        target == GetServiceSpec(r, serviceName)
        self == GetServiceSpec(r, r.serviceName)
    IN IF ~r.registered THEN [info |-> Nil, err |-> ErrNoRegisteredYet]
       ELSE IF target = Nil THEN [info |-> Nil, err |-> ErrServiceNotFound]
       ELSE IF self = Nil THEN [info |-> Nil, err |-> ErrNoRegisteredYet]
       ELSE IF r.tenant \notin DOMAIN tenants THEN [info |-> Nil, err |-> ErrNoTenant]
       ELSE IF ~InGlobal(tenants, serviceName) /\ target.RegisterTenant # r.tenant
            THEN [info |-> Nil, err |-> ErrServiceNotFound]
       ELSE [info |-> [Service |-> target, Ins |-> defaultInstance(self, target),
                       Version |-> tenants[r.tenant].Version],
             err |-> NoError]

\* ------------------------------------------------------------ the handlers
Handlers == {"h1", "h2"}
Subjects == {"n1"}      \* the node the concurrently delivered facts are about
Free == "free"
Idle == [pc |-> "idle"]

HandlersIdle ==
    /\ handlers = [h \in Handlers |-> Idle]
    /\ lock = Free
    /\ delivered = 0
    /\ pending = [n \in Nodes |-> << >>]

\* The registry after an accepted fact is applied: a join adds a live record or
\* makes the node's record live, a leave marks the node's record gone at now
\* or adds a gone record; the record takes the fact's logical time.
GoneTimeOf(kind, now) == IF kind = "leave" THEN now ELSE ZeroTime

ApplyFact(ms, id, kind, nodeName, msgTime, now) ==
    IF \E i \in 1..Len(ms) : ms[i].name = nodeName
    THEN [i \in 1..Len(ms) |->
            IF ms[i].name = nodeName
            THEN [ms[i] EXCEPT !.lastMessageTime = msgTime,
                               !.goneTime = GoneTimeOf(kind, now)]
            ELSE ms[i]]
    ELSE msb_add(ms, MemberStatus(id, nodeName, msgTime, GoneTimeOf(kind, now)))

\* The node is marked gone in the registry by a fact of logical time t or later.
GoneSince(ms, nodeName, t) ==
    \E i \in 1..Len(ms) :
        /\ ms[i].name = nodeName
        /\ ms[i].goneTime # ZeroTime
        /\ ms[i].lastMessageTime >= t

\* The sequence without its first element equal to x.
Without(q, x) ==
    LET k == CHOOSE i \in 1..Len(q) : q[i] = x /\ \A j \in 1..(i - 1) : q[j] # x
    IN [i \in 1..(Len(q) - 1) |-> IF i < k THEN q[i] ELSE q[i + 1]]

\* A handler may enter its critical section.
MayLockAlways(h) == TRUE

MayLock(h) == lock = Free

\* ---------------------------------------------------------------- actions
GateInit ==
    /\ operations = createMemberOperationBook
    /\ mobTimeout \in 0..MaxTimeout
    /\ clock = ClockStart
    /\ last = [op |-> "create"]
    /\ hist = HistInit
    /\ members = createMemberStatusBook
    /\ msbTimeout = 0
    /\ nextId = 1
    /\ calls = CallsIdle
    /\ rcs = NoServer
    /\ sweep = NoSweep
    /\ HandlersIdle

\* The wall clock advances.
Tick ==
    /\ clock < ClockStart + MaxTick
    /\ clock' = clock + 1
    /\ last' = [op |-> "tick"]
    /\ UNCHANGED <<meshVars, handlerVars, gateVars, bookVars>>

\* memberOperationBook.save(msgType, nodeName, msgTime)
mob_save ==
    \E msgType \in Kinds, nodeName \in Nodes, msgTime \in LogicalTimes :
        LET ok == SaveAccepts(operations, msgType, nodeName, msgTime) IN
        /\ operations' = SaveResult(operations, msgType, nodeName, msgTime, clock)
        /\ last' = [op |-> "save", msgType |-> msgType, nodeName |-> nodeName,
                    msgTime |-> msgTime, ok |-> ok,
                    had |-> nodeName \in DOMAIN operations,
                    prevTime |-> IF nodeName \in DOMAIN operations
                                 THEN operations[nodeName].messageTime ELSE None,
                    prev |-> hist[nodeName]]
        /\ hist' = HistSave(hist, msgType, nodeName, msgTime, ok)
        /\ UNCHANGED <<meshVars, handlerVars, mobTimeout, clock, bookVars>>

\* memberOperationBook.get(nodeName, msgType)
mob_get_call ==
    \E nodeName \in Nodes, msgType \in Kinds :
        /\ last' = [op |-> "get", msgType |-> msgType, nodeName |-> nodeName,
                    ret |-> mob_get(operations, nodeName, msgType),
                    before |-> operations]
        /\ UNCHANGED <<meshVars, handlerVars, gateVars, clock, bookVars>>

\* memberOperationBook.cleanup(now): now is a reading of the wall clock taken
\* by the caller, at the call or earlier.
mob_cleanup ==
    \E now \in ClockStart..clock :
        /\ operations' = MobCleanup(operations, now, mobTimeout)
        /\ last' = [op |-> "mob.cleanup", now |-> now,
                    gone |-> MobExpired(operations, now, mobTimeout)]
        /\ hist' = HistEvict(hist, DOMAIN operations \ DOMAIN operations')
        /\ UNCHANGED <<meshVars, handlerVars, mobTimeout, clock, bookVars>>

GateNext == Tick \/ mob_save \/ mob_get_call \/ mob_cleanup

GateSpec == GateInit /\ [][GateNext]_vars

\* ------------------------------------------------- memberStatusBook actions
BookInit ==
    /\ members = createMemberStatusBook
    /\ msbTimeout \in Timeouts
    /\ nextId = 1
    /\ calls = CallsIdle
    /\ rcs = NoServer
    /\ sweep = NoSweep
    /\ clock = ClockStart
    /\ last = [op |-> "create"]
    /\ operations = createMemberOperationBook
    /\ mobTimeout = 0
    /\ hist = HistInit
    /\ HandlersIdle

\* memberStatusBook.add(member): a record of a live member (goneTime zero) or
\* of a member found gone at this reading of the clock.
msb_add_call ==
    \E name \in Nodes, lastMessageTime \in {zeroLogicalTime},
       goneTime \in {ZeroTime, clock} :
        /\ nextId <= MaxAdds
        /\ members' = msb_add(members,
                               MemberStatus(nextId, name, lastMessageTime, goneTime))
        /\ nextId' = nextId + 1
        /\ sweep' = NoSweep
        /\ last' = [op |-> "add", id |-> nextId, before |-> members]
        /\ UNCHANGED <<meshVars, handlerVars, msbTimeout, calls, clock, gateVars>>

\* memberStatusBook.remove(memberName)
msb_remove ==
    \E memberName \in Nodes :
        /\ members' = MsbRemoveKeep(members, memberName)
        /\ last' = [op |-> "remove", memberName |-> memberName,
                    ret |-> MsbRemoveCount(members, memberName),
                    before |-> members]
        /\ UNCHANGED <<meshVars, handlerVars, msbTimeout, calls, nextId, sweep, clock, gateVars>>

\* memberStatusBook.cleanup(now): now is a reading of the wall clock taken by
\* the caller, at the call or earlier.
msb_cleanup ==
    \E now \in ClockStart..clock :
        /\ members' = MsbCleanupKeep(members, now, msbTimeout)
        /\ last' = [op |-> "msb.cleanup", now |-> now,
                    ret |-> MsbCleanupRemoved(members, now, msbTimeout),
                    before |-> members, prev |-> sweep]
        /\ sweep' = [now |-> now,
                     removed |-> Len(MsbCleanupRemoved(members, now, msbTimeout)),
                     any |-> TRUE]
        /\ UNCHANGED <<meshVars, handlerVars, msbTimeout, calls, nextId, clock, gateVars>>

\* memberStatusBook.randGet on a book with members: rand.Int31n(len) is any
\* index of the slice.
msb_randGet ==
    \E i \in RandIndexes(members) :
        /\ last' = [op |-> "randGet", ret |-> members[i], panic |-> FALSE,
                    before |-> members]
        /\ UNCHANGED <<meshVars, handlerVars, bookVars, clock, gateVars>>

\* memberStatusBook.randGet on an empty book: rand.Int31n(0) panics.
msb_randGet_empty ==
    /\ Len(members) = 0
    /\ last' = [op |-> "randGet", panic |-> TRUE]
    /\ UNCHANGED <<meshVars, handlerVars, bookVars, clock, gateVars>>

\* memberStatusBook.Count and memberStatusBook.names
msb_Count_call ==
    /\ last' = [op |-> "Count", ret |-> msb_Count(members), before |-> members]
    /\ UNCHANGED <<meshVars, handlerVars, bookVars, clock, gateVars>>

msb_names_call ==
    /\ last' = [op |-> "names", ret |-> msb_names(members), before |-> members]
    /\ UNCHANGED <<meshVars, handlerVars, bookVars, clock, gateVars>>

BookNext ==
    \/ Tick \/ msb_add_call \/ msb_remove \/ msb_cleanup
    \/ msb_randGet \/ msb_randGet_empty \/ msb_Count_call \/ msb_names_call

BookSpec == BookInit /\ [][BookNext]_vars

\* The calls that change the registry, without the read-only ones: the
\* read-only calls change nothing but the record of the last call, so the
\* registry passes through the same values.
UpdateNext == Tick \/ msb_add_call \/ msb_remove \/ msb_cleanup

UpdateSpec == BookInit /\ [][UpdateNext]_vars

\* The read-only calls, on every registry that adds, removes and sweeps at the
\* current reading of the clock produce.
QueryNext ==
    \/ Tick \/ msb_add_call \/ msb_remove
    \/ msb_cleanup /\ last'.now = clock
    \/ msb_randGet \/ msb_randGet_empty \/ msb_Count_call \/ msb_names_call

QuerySpec == BookInit /\ [][QueryNext]_vars

\* The registry under a periodic sweep: the clock keeps advancing up to its
\* bound and cleanup keeps being called with the current reading of the clock,
\* between whatever adds, removes and other cleanups happen.
CleanupNow == msb_cleanup /\ last'.now = clock

ExpirySpec ==
    BookInit /\ [][UpdateNext]_vars /\ WF_vars(Tick) /\ WF_vars(CleanupNow)

\* ------------------------------------- memberStatusBook, unsynchronised
\* The registry's methods take no lock. Each reads the slice msb.members once
\* (the operand of append, the operand of range) and assigns it once; between
\* the two, another caller's steps can run. The records added are those of one
\* member found gone at the time of the call.
add_read(c) ==
    \E name \in {"n1"}, goneTime \in {clock} :
        /\ calls[c].pc = "idle"
        /\ nextId <= MaxAdds
        /\ calls' = [calls EXCEPT ![c] =
                        [pc |-> "add", seen |-> members, overlapped |-> FALSE,
                         member |-> MemberStatus(nextId, name, zeroLogicalTime, goneTime)]]
        /\ nextId' = nextId + 1
        /\ last' = [op |-> "read", caller |-> c]
        /\ UNCHANGED <<meshVars, handlerVars, gateVars, members, msbTimeout, sweep, clock>>

add_write(c) ==
    /\ calls[c].pc = "add"
    /\ members' = msb_add(calls[c].seen, calls[c].member)
    /\ calls' = Overlap(calls, c)
    /\ last' = [op |-> "add", caller |-> c, id |-> calls[c].member.id,
                before |-> members, overlapped |-> calls[c].overlapped,
                lost |-> LostIds(members, members', {})]
    /\ UNCHANGED <<meshVars, handlerVars, gateVars, msbTimeout, nextId, sweep, clock>>

remove_read(c) ==
    \E memberName \in Nodes :
        /\ calls[c].pc = "idle"
        /\ calls' = [calls EXCEPT ![c] =
                        [pc |-> "remove", seen |-> members, overlapped |-> FALSE,
                         memberName |-> memberName]]
        /\ last' = [op |-> "read", caller |-> c]
        /\ UNCHANGED <<meshVars, handlerVars, gateVars, members, msbTimeout, nextId, sweep, clock>>

remove_write(c) ==
    /\ calls[c].pc = "remove"
    /\ members' = MsbRemoveKeep(calls[c].seen, calls[c].memberName)
    /\ calls' = Overlap(calls, c)
    /\ last' = [op |-> "remove", caller |-> c, memberName |-> calls[c].memberName,
                ret |-> MsbRemoveCount(calls[c].seen, calls[c].memberName),
                before |-> members, overlapped |-> calls[c].overlapped,
                lost |-> LostIds(members, members',
                                 {members[i].id : i \in
                                    {j \in 1..Len(members) :
                                        members[j].name = calls[c].memberName}})]
    /\ UNCHANGED <<meshVars, handlerVars, gateVars, msbTimeout, nextId, sweep, clock>>

cleanup_read(c) ==
    /\ calls[c].pc = "idle"
    /\ calls' = [calls EXCEPT ![c] =
                    [pc |-> "cleanup", seen |-> members, overlapped |-> FALSE,
                     now |-> clock]]
    /\ last' = [op |-> "read", caller |-> c]
    /\ UNCHANGED <<meshVars, handlerVars, gateVars, members, msbTimeout, nextId, sweep, clock>>

cleanup_write(c) ==
    /\ calls[c].pc = "cleanup"
    /\ members' = MsbCleanupKeep(calls[c].seen, calls[c].now, msbTimeout)
    /\ calls' = Overlap(calls, c)
    /\ last' = [op |-> "msb.cleanup", caller |-> c, now |-> calls[c].now,
                ret |-> MsbCleanupRemoved(calls[c].seen, calls[c].now, msbTimeout),
                before |-> members, overlapped |-> calls[c].overlapped,
                lost |-> LostIds(members, members',
                                 {m.id : m \in
                                    {MsbCleanupRemoved(calls[c].seen, calls[c].now,
                                                       msbTimeout)[i] :
                                        i \in 1..Len(MsbCleanupRemoved(
                                            calls[c].seen, calls[c].now, msbTimeout))}})]
    /\ UNCHANGED <<meshVars, handlerVars, gateVars, msbTimeout, nextId, sweep, clock>>

RaceNext ==
    \/ Tick
    \/ \E c \in Callers :
        \/ add_read(c) \/ add_write(c)
        \/ remove_read(c) \/ remove_write(c)
        \/ cleanup_read(c) \/ cleanup_write(c)

RaceSpec == BookInit /\ [][RaceNext]_vars

\* ------------------------------------------------- both books, one caller
\* A cluster's two books side by side, each with its own timeout, called by one
\* caller: joins of one logical time are offered to the gate, the registry
\* holds one record of one member name at a time, and the sweeps use the
\* current reading of the clock.
ClusterInit ==
    /\ operations = createMemberOperationBook
    /\ mobTimeout \in 0..MaxTimeout
    /\ hist = HistInit
    /\ members = createMemberStatusBook
    /\ msbTimeout \in 0..MaxTimeout
    /\ nextId = 1
    /\ calls = CallsIdle
    /\ rcs = NoServer
    /\ sweep = NoSweep
    /\ clock = ClockStart
    /\ last = [op |-> "create"]
    /\ HandlersIdle

ClusterNext ==
    \/ Tick
    \/ mob_save /\ last'.msgType = "join" /\ last'.msgTime = zeroLogicalTime
    \/ mob_get_call /\ last'.msgType = "join"
    \/ mob_cleanup /\ last'.now = clock
    \/ msb_add_call /\ members = createMemberStatusBook /\ members'[Len(members')].name = "n1"
    \/ msb_remove /\ last'.memberName = "n1"
    \/ msb_cleanup /\ last'.now = clock

ClusterSpec == ClusterInit /\ [][ClusterNext]_vars

\* ------------------------------------------------ registry center actions
\* A sidecar's registry center, registered or not, for service "a" of tenant
\* t1, over a store holding any of the services and of the tenants.
DiscoveryInit ==
    /\ \E registered \in BOOLEAN,
          held \in SUBSET ServiceNames,
          found \in SUBSET {GlobalTenant, "t1"},
          listed \in SUBSET ServiceNames :
        \E regs \in [held -> TenantNames] :
            rcs = [registered |-> registered, serviceName |-> <<"a">>, tenant |-> "t1",
                   services |-> [s \in held |->
                                   [Name |-> s, RegisterTenant |-> regs[s],
                                    Sidecar |-> SidecarOf[s]]],
                   tenants |-> [t \in found |->
                                  [Services |-> IF t = GlobalTenant THEN listed ELSE {},
                                   Version |-> IF t = GlobalTenant THEN 1 ELSE 2]]]
    /\ operations = createMemberOperationBook
    /\ mobTimeout = 0
    /\ hist = HistInit
    /\ members = createMemberStatusBook
    /\ msbTimeout = 0
    /\ nextId = 1
    /\ calls = CallsIdle
    /\ sweep = NoSweep
    /\ clock = ClockStart
    /\ last = [op |-> "create"]
    /\ HandlersIdle

UniqInstanceID_call ==
    \E serviceName \in Strings :
        /\ last' = [op |-> "UniqInstanceID", serviceName |-> serviceName,
                    ret |-> UniqInstanceID(serviceName)]
        /\ UNCHANGED <<handlerVars, gateVars, bookVars, clock, rcs>>

\* GetServiceName, on any instance ID or on the one UniqInstanceID just made.
GetServiceName_call ==
    \E instanceID \in Strings \cup
            (IF last.op = "UniqInstanceID" THEN {last.ret} ELSE {}) :
        /\ last' = [op |-> "GetServiceName", instanceID |-> instanceID,
                    ret |-> GetServiceName(instanceID)]
        /\ UNCHANGED <<handlerVars, gateVars, bookVars, clock, rcs>>

DiscoveryService_call ==
    \E serviceName \in ServiceNames :
        /\ last' = [op |-> "DiscoveryService", serviceName |-> serviceName,
                    ret |-> DiscoveryService(rcs, serviceName)]
        /\ UNCHANGED <<handlerVars, gateVars, bookVars, clock, rcs>>

DiscoveryNext == UniqInstanceID_call \/ GetServiceName_call \/ DiscoveryService_call

DiscoverySpec == DiscoveryInit /\ [][DiscoveryNext]_vars

\* --------------------------------------------------------- handler actions
HandlerInit ==
    /\ operations = createMemberOperationBook
    /\ mobTimeout \in 0..MaxTimeout
    /\ hist = HistInit
    /\ members = createMemberStatusBook
    /\ msbTimeout \in 0..MaxTimeout
    /\ nextId = 1
    /\ calls = CallsIdle
    /\ rcs = NoServer
    /\ sweep = NoSweep
    /\ clock = ClockStart
    /\ last = [op |-> "create"]
    /\ HandlersIdle

\* The transport delivers a fact (kind, node, logical time) to an idle handler.
Deliver(h) ==
    \E msgType \in Kinds, nodeName \in Subjects, msgTime \in LogicalTimes :
        /\ handlers[h].pc = "idle"
        /\ delivered < MaxFacts
        /\ delivered' = delivered + 1
        /\ handlers' = [handlers EXCEPT ![h] =
                [pc |-> "wait", msgType |-> msgType, nodeName |-> nodeName,
                 msgTime |-> msgTime]]
        /\ last' = [op |-> "deliver"]
        /\ UNCHANGED <<meshVars, gateVars, bookVars, clock, lock, pending>>

\* The handler takes the lock that guards both books.
Lock(h) ==
    /\ handlers[h].pc = "wait"
    /\ MayLock(h)
    /\ lock' = h
    /\ handlers' = [handlers EXCEPT ![h].pc = "gate"]
    /\ last' = [op |-> "lock"]
    /\ UNCHANGED <<meshVars, gateVars, bookVars, clock, delivered, pending>>

\* The handler asks the gate: memberOperationBook.save.
Gate(h) ==
    LET f == handlers[h]
        ok == SaveAccepts(operations, f.msgType, f.nodeName, f.msgTime) IN
    /\ f.pc = "gate"
    /\ operations' = SaveResult(operations, f.msgType, f.nodeName, f.msgTime, clock)
    /\ pending' = IF ok
                  THEN [pending EXCEPT ![f.nodeName] = Append(@, f.msgTime)]
                  ELSE pending
    /\ handlers' = [handlers EXCEPT ![h] =
            [pc |-> IF ok THEN "apply" ELSE "unlock",
             msgType |-> f.msgType, nodeName |-> f.nodeName, msgTime |-> f.msgTime,
             ok |-> ok,
             had |-> f.nodeName \in DOMAIN operations,
             stale |-> GoneSince(members, f.nodeName, f.msgTime),
             before |-> members]]
    /\ last' = [op |-> "gate"]
    /\ UNCHANGED <<meshVars, mobTimeout, hist, bookVars, clock, lock, delivered>>

\* The handler applies the accepted fact to the registry.
Apply(h) ==
    LET f == handlers[h] IN
    /\ f.pc = "apply"
    /\ members' = ApplyFact(members, nextId, f.msgType, f.nodeName, f.msgTime, clock)
    /\ nextId' = IF Len(members') > Len(members) THEN nextId + 1 ELSE nextId
    /\ pending' = [pending EXCEPT ![f.nodeName] = Without(@, f.msgTime)]
    /\ handlers' = [handlers EXCEPT ![h].pc = "unlock"]
    /\ last' = [op |-> "apply"]
    /\ UNCHANGED <<meshVars, gateVars, msbTimeout, calls, sweep, clock, lock, delivered>>

\* The handler leaves its critical section and is idle again.
Unlock(h) ==
    /\ handlers[h].pc = "unlock"
    /\ lock' = IF lock = h THEN Free ELSE lock
    /\ handlers' = [handlers EXCEPT ![h] = Idle]
    /\ last' = [op |-> "unlock"]
    /\ UNCHANGED <<meshVars, gateVars, bookVars, clock, delivered, pending>>

\* The periodic sweep: under the lock, cleanup(now) of both books.
Sweep ==
    /\ lock = Free
    /\ operations' = MobCleanup(operations, clock, mobTimeout)
    /\ members' = MsbCleanupKeep(members, clock, msbTimeout)
    /\ last' = [op |-> "sweep"]
    /\ UNCHANGED <<meshVars, mobTimeout, hist, msbTimeout, calls, nextId, sweep, clock, handlerVars>>

HandlerNext ==
    \/ Tick
    \/ Sweep
    \/ \E h \in Handlers : Deliver(h)
    \/ \E h \in Handlers : Lock(h)
    \/ \E h \in Handlers : Gate(h)
    \/ \E h \in Handlers : Apply(h)
    \/ \E h \in Handlers : Unlock(h)

HandlerSpec == HandlerInit /\ [][HandlerNext]_vars

\* =================================================== claims: the gate (save)
SaveCalled == last.op = "save"
SavedNode == last.nodeName

\* C1: save(kind, node, t) returns true exactly when the gate held no record
\* for node or the stored messageTime was strictly less than t (an equal t is
\* rejected); on acceptance the record for node is {kind, t, receiveTime = now}.
C1_SaveContract ==
    SaveCalled =>
        /\ last.ok <=> (~last.had \/ last.prevTime < last.msgTime)
        /\ last.ok =>
            /\ SavedNode \in DOMAIN operations
            /\ operations[SavedNode] =
                [msgType |-> last.msgType, messageTime |-> last.msgTime,
                 receiveTime |-> clock]

\* A save carrying exactly the stored time has been rejected.
C1_Witness ==
    SaveCalled /\ last.had /\ last.prevTime = last.msgTime /\ ~last.ok

\* C2 as claimed: once save(K, N, t1) was accepted, every later save(K', N, t2)
\* with t2 <= t1 returns false and the stored time for N is still t1, whatever
\* happened to the gate in between.
C2_Original ==
    (SaveCalled /\ last.prev.accepted # None /\ last.msgTime <= last.prev.accepted) =>
        /\ ~last.ok
        /\ SavedNode \in DOMAIN operations
        /\ operations[SavedNode].messageTime = last.prev.accepted

\* C2 amended: once save(K, N, t1) was accepted and cleanup has not evicted
\* N's record since, save(K', N, t2) with t2 <= t1 returns false for every kind
\* K' and the stored time for N stays the highest time accepted since the
\* record was created.
C2_MonotonicAcceptance ==
    (SaveCalled /\ last.prev.held # None /\ last.msgTime <= last.prev.held) =>
        /\ ~last.ok
        /\ SavedNode \in DOMAIN operations
        /\ operations[SavedNode].messageTime = last.prev.held

\* A save of another kind and a lower time than the held record was rejected.
C2_Witness ==
    /\ SaveCalled /\ last.prev.held # None /\ last.msgTime < last.prev.held
    /\ ~last.ok
    /\ SavedNode \in DOMAIN operations
    /\ operations[SavedNode].msgType # last.msgType

\* C3 as claimed: over any sequence of gate operations, a time save accepts for
\* a node is never lower than a time it accepted for that node before.
C3_Original ==
    (SaveCalled /\ last.ok /\ last.prev.accepted # None) =>
        last.msgTime >= last.prev.accepted

\* C3 amended: the times save accepts for a node between two evictions of the
\* node's record by cleanup are nondecreasing: an accepted time is never lower
\* than a time accepted since the node's record was created.
C3_OrderedWhileHeld ==
    (SaveCalled /\ last.ok /\ last.prev.held # None) =>
        last.msgTime >= last.prev.held

\* A newer fact was accepted over a held record of a node evicted earlier.
C3_Witness ==
    /\ SaveCalled /\ last.ok
    /\ last.prev.held # None /\ last.msgTime > last.prev.held
    /\ last.prev.evicted

\* The result save would give on a gate that is never cleaned up: such a gate
\* holds for each node the highest time offered so far.
CleanupFreeResult == last.prev.offered = None \/ last.msgTime > last.prev.offered

\* C5 as claimed: the result of every save is the one it would have without
\* any cleanup call interleaved.
C5_Original == SaveCalled => (last.ok <=> CleanupFreeResult)

\* C5 amended: cleanup changes the result of a save only by evicting: for a
\* node whose record no cleanup has evicted the result is the cleanup-free one,
\* and a save for a node whose record is absent is accepted whatever its time.
C5_CleanupOnlyEvicts ==
    SaveCalled =>
        /\ ~last.prev.evicted => (last.ok <=> CleanupFreeResult)
        /\ last.prev.held = None => last.ok

\* After an eviction a fact no newer than one offered before was accepted.
C5_Witness ==
    /\ SaveCalled /\ last.prev.evicted /\ last.prev.held = None
    /\ last.ok /\ ~CleanupFreeResult

\* ======================================== claims: the registry (cleanup)
SweepCalled == last.op = "msb.cleanup"
Held(ms) == {ms[i] : i \in 1..Len(ms)}
Live(m) == m.goneTime = ZeroTime

\* C6 as claimed: cleanup(now) keeps every live record (goneTime unset): it is
\* in the registry after the call and not in the returned expired set.
C6_LiveRecordsKept ==
    SweepCalled =>
        \A m \in Held(last.before) :
            Live(m) => (m \in Held(members) /\ m \notin Held(last.ret))

\* C7: cleanup(now) retains a gone record when now - goneTime <= timeout
\* (boundary included) and returns it as expired when now - goneTime > timeout;
\* the retained and the returned records are disjoint and together are exactly
\* the records held before the call.
C7_GraceWindow ==
    SweepCalled =>
        /\ \A m \in Held(last.before) :
            ~Live(m) =>
                /\ last.now - m.goneTime <= msbTimeout
                    => (m \in Held(members) /\ m \notin Held(last.ret))
                /\ last.now - m.goneTime > msbTimeout
                    => (m \in Held(last.ret) /\ m \notin Held(members))
        /\ Held(members) \cap Held(last.ret) = {}
        /\ Held(members) \cup Held(last.ret) = Held(last.before)
        /\ Len(members) + Len(last.ret) = Len(last.before)

\* One cleanup kept a gone record exactly at the boundary and expired another.
C7_Witness ==
    /\ SweepCalled
    /\ \E m \in Held(members) :
        ~Live(m) /\ last.now - m.goneTime = msbTimeout /\ msbTimeout > 0
    /\ \E m \in Held(last.ret) : ~Live(m)

\* C8: cleanup(now) called again with the same now and no add in between
\* returns nothing and leaves the registry as the first call left it.
C8_CleanupIdempotent ==
    (SweepCalled /\ last.prev.any /\ last.now = last.prev.now) =>
        /\ last.ret = << >>
        /\ members = last.before

\* A second cleanup with the same now, after a first that expired a record and
\* kept another.
C8_Witness ==
    /\ SweepCalled /\ last.prev.any /\ last.now = last.prev.now
    /\ last.prev.removed > 0
    /\ members # << >>

\* C9 as claimed: cleanup(now1) then cleanup(now2) with now2 >= now1 and no add
\* in between: the second call returns nothing.
C9_Original ==
    (SweepCalled /\ last.prev.any /\ last.now >= last.prev.now) =>
        last.ret = << >>

\* C9 amended: cleanup(now1) then cleanup(now2) with now2 <= now1 and no add
\* in between: the second call returns nothing.
C9_NotLaterCleanupEmpty ==
    (SweepCalled /\ last.prev.any /\ last.now <= last.prev.now) =>
        last.ret = << >>

\* A second cleanup with an earlier now, with records still held.
C9_Witness ==
    /\ SweepCalled /\ last.prev.any /\ last.now < last.prev.now
    /\ last.prev.removed > 0
    /\ members # << >>

\* ================================================== claims: the handlers
Decided(h) == handlers[h].pc \in {"apply", "unlock"}
InSection(h) == handlers[h].pc \in {"gate", "apply"}
RecordsOf(ms, nodeName) == {m \in Held(ms) : m.name = nodeName}

\* What C4 promises for a handler whose fact found the node marked gone by a
\* fact at least as new: the gate rejected it, the registry is as it was and
\* the node is still gone.
StaleFactDiscarded(h) ==
    /\ ~handlers[h].ok
    /\ handlers[h].pc = "unlock"
    /\ members = handlers[h].before
    /\ GoneSince(members, handlers[h].nodeName, handlers[h].msgTime)

\* C4 as claimed: once a leave fact for N at time t is accepted and N is marked
\* gone, every later fact about N with logical time <= t is rejected by the
\* gate, the registry is not touched and N remains gone.
C4_Original ==
    \A h \in Handlers :
        (Decided(h) /\ handlers[h].stale) => StaleFactDiscarded(h)

\* C4 amended: the same, as long as memberOperationBook.cleanup has not evicted
\* N's record from the gate when the later fact arrives.
C4_NoResurrectionWhileHeld ==
    \A h \in Handlers :
        (Decided(h) /\ handlers[h].stale /\ handlers[h].had)
            => StaleFactDiscarded(h)

\* A late join, older than the leave that marked the node gone, was rejected.
C4_Witness ==
    \E h \in Handlers :
        /\ Decided(h) /\ handlers[h].stale /\ handlers[h].had
        /\ handlers[h].msgType = "join" /\ ~handlers[h].ok
        /\ \E m \in RecordsOf(members, handlers[h].nodeName) :
            m.lastMessageTime > handlers[h].msgTime

C11_EmptyRandGetNoFault == last.op = "randGet" => ~last.panic

\* ===================================================== claims: the gate (get)
GetCalled == last.op = "get"
HasKind(nodeName, msgType) ==
    nodeName \in DOMAIN operations /\ operations[nodeName].msgType = msgType

\* C12: get(node, kind) returns (true, stored messageTime) exactly when a record
\* exists for node and its stored kind equals kind, and (false, zeroLogicalTime)
\* otherwise; get leaves the gate as it was.
C12_GetContract ==
    GetCalled =>
        /\ HasKind(last.nodeName, last.msgType)
            => last.ret = <<TRUE, operations[last.nodeName].messageTime>>
        /\ ~HasKind(last.nodeName, last.msgType)
            => last.ret = <<FALSE, zeroLogicalTime>>
        /\ operations = last.before

\* get asked for a kind other than the stored one, whose time is not zero.
C12_Witness ==
    /\ GetCalled
    /\ last.nodeName \in DOMAIN operations
    /\ operations[last.nodeName].msgType # last.msgType
    /\ operations[last.nodeName].messageTime # zeroLogicalTime
    /\ last.ret = <<FALSE, zeroLogicalTime>>

\* C13: after save(K1, N, t1) was accepted and save(K2, N, t2) with K2 # K1 and
\* t2 > t1 was accepted over it, N has one record: get(N, K2) returns
\* (true, t2), and get(N, K) for every other kind K, K1 included, returns
\* not-found although the record exists.
C13_SingleSlot ==
    (GetCalled /\ hist[last.nodeName].swapped) =>
        /\ last.nodeName \in DOMAIN operations
        /\ last.msgType = hist[last.nodeName].kind
            => last.ret = <<TRUE, hist[last.nodeName].held>>
        /\ last.msgType # hist[last.nodeName].kind
            => last.ret = <<FALSE, zeroLogicalTime>>

\* get asked for the kind that was overwritten by a newer fact of another kind.
C13_Witness ==
    /\ GetCalled /\ hist[last.nodeName].swapped
    /\ last.msgType # hist[last.nodeName].kind
    /\ last.nodeName \in DOMAIN operations
    /\ last.ret = <<FALSE, zeroLogicalTime>>

\* C14: a save that returns false leaves the gate unchanged: the node's record
\* keeps its kind, messageTime and receiveTime, and no other node's record is
\* created, changed or deleted.
C14_RejectedSaveNoEffect ==
    [][(last'.op = "save" /\ ~last'.ok) => operations' = operations]_vars

\* A save was rejected while the gate held records of both nodes.
C14_Witness ==
    /\ SaveCalled /\ ~last.ok
    /\ DOMAIN operations = Nodes

\* C17: memberOperationBook.cleanup(now) deletes exactly the records with
\* now - receiveTime > timeout and keeps, unchanged, every record with
\* now - receiveTime <= timeout, whatever its logical time or kind; what
\* happens to a node's record depends on that record alone.
C17_GateCleanupByAge ==
    [][last'.op = "mob.cleanup" =>
        /\ DOMAIN operations' \subseteq DOMAIN operations
        /\ \A n \in DOMAIN operations :
            /\ last'.now - operations[n].receiveTime > mobTimeout
                => n \notin DOMAIN operations'
            /\ last'.now - operations[n].receiveTime <= mobTimeout
                => (n \in DOMAIN operations' /\ operations'[n] = operations[n])
      ]_vars

\* One cleanup deleted one node's record and kept the other's, which carries
\* the lower logical time.
C17_Witness ==
    /\ last.op = "mob.cleanup"
    /\ \E n \in last.gone, k \in DOMAIN operations :
        /\ n \notin DOMAIN operations
        /\ operations[k].messageTime < hist[n].accepted
        /\ last.now - operations[k].receiveTime = mobTimeout

\* C15: remove(name) removes every record named name, duplicates included, and
\* returns how many it removed; with no match it returns 0 and removes nothing,
\* so a second remove of the same name right after returns 0. Records with
\* other names stay.
C15_RemoveAllMatching ==
    last.op = "remove" =>
        /\ \A i \in 1..Len(members) : members[i].name # last.memberName
        /\ Held(members) = {m \in Held(last.before) : m.name # last.memberName}
        /\ last.ret = Cardinality({m \in Held(last.before) : m.name = last.memberName})
        /\ Len(members) = Len(last.before) - last.ret
        /\ last.ret = 0 => members = last.before
        /\ MsbRemoveCount(members, last.memberName) = 0
        /\ MsbRemoveKeep(members, last.memberName) = members

\* remove took out two records of one name and left a record of the other.
C15_Witness ==
    /\ last.op = "remove"
    /\ last.ret = 2
    /\ Len(members) = 1

\* C16: add appends unconditionally: Count() after is Count() before plus one,
\* also when a record of the same name is already held, and every record held
\* before remains.
C16_AddAppends ==
    last.op = "add" =>
        /\ msb_Count(members) = msb_Count(last.before) + 1
        /\ \A i \in 1..Len(last.before) : members[i] = last.before[i]
        /\ members[Len(members)].id = last.id

\* A record was added under a name the registry already held.
C16_Witness ==
    /\ last.op = "add"
    /\ \E i \in 1..Len(last.before) :
        last.before[i].name = members[Len(members)].name

\* C18: on a non-empty registry randGet returns a record currently held, every
\* held record is a possible result, and the registry is left unchanged.
C18_RandGetHeld ==
    /\ (last.op = "randGet" /\ ~last.panic) =>
        /\ last.ret \in Held(members)
        /\ members = last.before
    /\ \A i \in 1..Len(members) :
        ENABLED (msb_randGet /\ last'.ret = members[i])

\* randGet returned the record at the last position of a registry of several.
C18_Witness ==
    /\ last.op = "randGet" /\ ~last.panic
    /\ Len(members) >= 2
    /\ last.ret = members[Len(members)]

\* C19: Count() is the number of records held, live and gone alike; names()
\* has one entry per held record, that record's name, so its length is
\* Count(); neither call changes the registry.
C19_CountAndNames ==
    /\ last.op = "Count" =>
        /\ last.ret = Cardinality(Held(members))
        /\ members = last.before
    /\ last.op = "names" =>
        /\ Len(last.ret) = msb_Count(members)
        /\ \A i \in 1..Len(members) : last.ret[i] = members[i].name
        /\ members = last.before

\* names() listed one name twice, once for a live and once for a gone record.
C19_Witness ==
    /\ last.op = "names"
    /\ \E i, j \in 1..Len(last.ret) :
        /\ i # j
        /\ last.ret[i] = last.ret[j]
        /\ Live(members[i]) /\ ~Live(members[j])

\* The pointers the registry holds, and the records a call took out.
IdsOf(ms) == {ms[i].id : i \in 1..Len(ms)}
Reported(id) == last.op = "msb.cleanup" /\ id \in IdsOf(last.ret)
RemovedByName(id) ==
    /\ last.op = "remove"
    /\ \E m \in Held(last.before) : m.id = id /\ m.name = last.memberName
\* A gone record whose grace period ends before the clock's bound.
Expiring(id) ==
    \E m \in Held(members) :
        /\ m.id = id
        /\ ~Live(m)
        /\ m.goneTime + msbTimeout < ClockStart + MaxTick

\* C20: under repeated cleanup(now) with now growing past goneTime + timeout,
\* every gone record is eventually out of the registry and, unless remove(name)
\* took it out first, is reported in an expired set; a cleanup reports only
\* records it takes out of the registry, each once, and a record that left the
\* registry is never held again (a new add makes a new record), so no record
\* is reported twice.
C20_GoneEventuallyExpired ==
    /\ [][/\ last'.op = "msb.cleanup" =>
              /\ IdsOf(last'.ret) \subseteq IdsOf(members)
              /\ IdsOf(last'.ret) \cap IdsOf(members') = {}
              /\ Cardinality(IdsOf(last'.ret)) = Len(last'.ret)
          /\ \A id \in 1..(nextId - 1) :
              id \notin IdsOf(members) => id \notin IdsOf(members')
        ]_vars
    /\ \A id \in 1..MaxAdds :
        Expiring(id) ~> /\ id \notin IdsOf(members)
                        /\ Reported(id) \/ RemovedByName(id)

\* A later cleanup, after an earlier one that was too early, reported a gone
\* record and took it out of the registry.
C20_Witness ==
    /\ last.op = "msb.cleanup"
    /\ last.prev.any /\ last.prev.now < last.now /\ last.prev.removed = 0
    /\ \E m \in Held(last.ret) :
        /\ ~Live(m)
        /\ m \in Held(last.before)
        /\ m.id \notin IdsOf(members)

\* The gate ops with the receiveTime of each record replaced by rt's.
WithReceiveTimes(ops, rt) ==
    [n \in DOMAIN ops |-> [ops[n] EXCEPT !.receiveTime = rt[n]]]

\* C21: receiveTime is never used for ordering: on two gates that differ only
\* in the receiveTime of their records every save(kind, node, t) gives the same
\* accept/reject answer and every get the same (found, messageTime). Stated at
\* each get(node, kind), made in every reachable gate: the answer it gave, and
\* the answer of save(kind, node, t) for every t, are those of every gate that
\* differs from this one in receiveTime values only.
C21_ReceiveTimeNotOrdering ==
    GetCalled =>
        \A alt \in {WithReceiveTimes(last.before, rt) :
                        rt \in [DOMAIN last.before -> Instants]} :
            /\ mob_get(alt, last.nodeName, last.msgType) = last.ret
            /\ \A msgTime \in LogicalTimes :
                SaveAccepts(alt, last.msgType, last.nodeName, msgTime)
                    = SaveAccepts(last.before, last.msgType, last.nodeName, msgTime)

\* get found a record received before now, in a gate that holds a second
\* record received at another time.
C21_Witness ==
    /\ GetCalled /\ last.ret[1]
    /\ operations[last.nodeName].receiveTime < clock
    /\ \E n \in DOMAIN operations :
        operations[n].receiveTime # operations[last.nodeName].receiveTime

\* C23: in every reachable state each node name has at most one record, and
\* while the record is not evicted by cleanup its messageTime is the logical
\* time of the most recently accepted save for the node and is at least the
\* time of every save accepted for the node since the record was created.
C23_GateInvariant ==
    /\ DOMAIN operations \subseteq Nodes
    /\ \A n \in Nodes :
        /\ n \in DOMAIN operations <=> hist[n].recent # None
        /\ n \in DOMAIN operations =>
            /\ operations[n].msgType \in Kinds
            /\ operations[n].messageTime = hist[n].recent
            /\ operations[n].messageTime >= hist[n].held

\* A save overwrote the record of a node whose earlier record had been evicted,
\* so the record has taken two accepted saves since it was created.
C23_Witness ==
    /\ SaveCalled /\ last.ok /\ last.had
    /\ last.prev.evicted
    /\ operations[last.nodeName].messageTime > last.prev.held

\* C24: the two books are swept independently: memberStatusBook add, remove and
\* cleanup change no memberOperationBook record; memberOperationBook save, get
\* and cleanup change no registry record; each cleanup decides by its own
\* timeout; an accepted save for a node leaves every other node's record as
\* it was.
C24_IndependentBooks ==
    [][/\ last'.op \in {"add", "remove", "msb.cleanup"} => operations' = operations
       /\ last'.op \in {"save", "get", "mob.cleanup"} => members' = members
       /\ last'.op = "mob.cleanup" =>
            \A n \in DOMAIN operations :
                n \in DOMAIN operations'
                    <=> Sub(last'.now, operations[n].receiveTime) <= mobTimeout
       /\ last'.op = "msb.cleanup" =>
            \A m \in Held(members) :
                m \in Held(members') <=> Sub(last'.now, m.goneTime) <= msbTimeout
       /\ (last'.op = "save" /\ last'.ok) =>
            \A n \in Nodes \ {last'.nodeName} :
                /\ n \in DOMAIN operations <=> n \in DOMAIN operations'
                /\ n \in DOMAIN operations => operations'[n] = operations[n]
      ]_vars

\* The gate's cleanup evicted a record by the gate's timeout while the
\* registry, with a longer timeout, holds a gone record just as old.
C24_Witness ==
    /\ last.op = "mob.cleanup"
    /\ last.gone # {}
    /\ mobTimeout < msbTimeout
    /\ \E m \in Held(members) :
        /\ ~Live(m)
        /\ last.now - m.goneTime > mobTimeout

\* A call on the registry by an unsynchronised caller has just assigned
\* msb.members.
Wrote == last.op \in {"add", "remove", "msb.cleanup"}

\* C25 as claimed: no added record is lost, also when add is interleaved step
\* by step with a cleanup or remove of another caller: no call takes a record
\* out of the registry other than a remove of its name or a cleanup that
\* returns it.
C25_Original == Wrote => last.lost = {}

\* C25 amended: a call that runs without another caller assigning the registry
\* between its read of msb.members and its own assignment (the exclusion the
\* callers are required to hold) takes no record out of the registry other
\* than by remove of its name or by returning it from cleanup.
C25_NoLossUnderExclusion == (Wrote /\ ~last.overlapped) => last.lost = {}

\* A cleanup that no other call overlapped returned an expired record and kept
\* another, while the other caller is inside an add.
C25_Witness ==
    /\ last.op = "msb.cleanup" /\ ~last.overlapped
    /\ Len(last.ret) >= 1
    /\ Len(members) >= 1
    /\ \E c \in Callers : calls[c].pc = "add"

\* The number of '-'-separated fields of a string.
FieldCount(s) == 1 + Cardinality({i \in 1..Len(s) : s[i] = "-"})
NoDash(s) == \A i \in 1..Len(s) : s[i] # "-"

\* C22 as claimed: GetServiceName inverts UniqInstanceID: for every service
\* name s without '-', GetServiceName(UniqInstanceID(s)) is s; for an instance
\* ID that does not split into exactly three fields it is the empty string.
C22_GetServiceNameInverts ==
    last.op = "GetServiceName" =>
        /\ \A s \in Strings :
            (NoDash(s) /\ last.instanceID = UniqInstanceID(s)) => last.ret = s
        /\ FieldCount(last.instanceID) # 3 => last.ret = Empty

\* What DiscoveryService was called on.
DiscoveryCalled == last.op = "DiscoveryService"
TargetMissing == last.serviceName \notin DOMAIN rcs.services
SelfMissing == rcs.serviceName \notin DOMAIN rcs.services
TenantMissing == rcs.tenant \notin DOMAIN rcs.tenants
ListedGlobal ==
    /\ GlobalTenant \in DOMAIN rcs.tenants
    /\ last.serviceName \in rcs.tenants[GlobalTenant].Services
Visible ==
    /\ ~TargetMissing
    /\ ListedGlobal \/ rcs.services[last.serviceName].RegisterTenant = rcs.tenant
\* The ServiceRegistryInfo for the target: its spec, an instance under its name
\* at the caller's sidecar address and egress port, the tenant's version.
ExpectedInfo ==
    [Service |-> rcs.services[last.serviceName],
     Ins |-> [ServiceName |-> last.serviceName,
              InstanceID |-> UniqInstanceID(last.serviceName),
              IP |-> rcs.services[rcs.serviceName].Sidecar.Address,
              Port |-> rcs.services[rcs.serviceName].Sidecar.EgressPort],
     Version |-> rcs.tenants[rcs.tenant].Version]

\* C26 as claimed: ErrNoRegisteredYet when the server is not registered or its
\* own spec is missing; ErrServiceNotFound when the target spec is missing or
\* the target is neither listed in the global tenant nor registered in the
\* caller's tenant; an error when the caller's tenant record is missing; a
\* ServiceRegistryInfo only when the target exists and is visible.
C26_Original ==
    DiscoveryCalled =>
        /\ (~rcs.registered \/ SelfMissing) => last.ret.err = ErrNoRegisteredYet
        /\ (TargetMissing \/ ~Visible) => last.ret.err = ErrServiceNotFound
        /\ TenantMissing => last.ret.err # NoError
        /\ last.ret.err = NoError => (Visible /\ last.ret.info = ExpectedInfo)

\* C26 amended: the conditions are tested in the order registered, target
\* spec, own spec, caller's tenant record, visibility, and the first that
\* fails decides the error; when none fails the ServiceRegistryInfo is
\* returned, its default instance at the caller's sidecar address and egress
\* port.
C26_ErrorsInOrder ==
    DiscoveryCalled =>
        /\ last.ret.err = NoError <=>
            (rcs.registered /\ ~TargetMissing /\ ~SelfMissing /\ ~TenantMissing /\ Visible)
        /\ last.ret.err = NoError => last.ret.info = ExpectedInfo
        /\ last.ret.err # NoError => last.ret.info = Nil
        /\ ~rcs.registered => last.ret.err = ErrNoRegisteredYet
        /\ (rcs.registered /\ TargetMissing) => last.ret.err = ErrServiceNotFound
        /\ (rcs.registered /\ ~TargetMissing /\ SelfMissing)
            => last.ret.err = ErrNoRegisteredYet
        /\ (rcs.registered /\ ~TargetMissing /\ ~SelfMissing /\ TenantMissing)
            => last.ret.err = ErrNoTenant
        /\ (rcs.registered /\ ~TargetMissing /\ ~SelfMissing /\ ~TenantMissing /\ ~Visible)
            => last.ret.err = ErrServiceNotFound

\* Another service, registered in another tenant but listed in the global
\* tenant, was discovered: the instance is at the caller's own sidecar.
C26_Witness ==
    /\ DiscoveryCalled
    /\ last.ret.err = NoError
    /\ last.serviceName # rcs.serviceName
    /\ rcs.services[last.serviceName].RegisterTenant # rcs.tenant
    /\ last.ret.info.Ins.IP = SidecarOf[rcs.serviceName].Address
    /\ last.ret.info.Ins.IP # SidecarOf[last.serviceName].Address

=============================================================================
